---------------------------- MODULE Spec2Model ----------------------------
(* netbuffer.py: the NetBuffer codec engine (converter functions, the type   *)
(* registry held in NetBuffer._defaults, and the buffer operations).         *)
(*                                                                           *)
(* Conventions of the model                                                  *)
(*   - a Python value that may be None is a tuple: <<>> is None, <<x>> is x; *)
(*   - bytes are sequences of 0..255, text is a sequence of code points;     *)
(*   - a call either returns, Return(v), or raises, Raise("ErrorName").      *)
EXTENDS Integers, Sequences, FiniteSets, TLC

VARIABLES
    heap,      \* the registry dictionaries: heap[r] is one `_defaults` dict
    defaults,  \* defaults[b]: the dict buffer b's `_defaults` attribute refers to
    built,     \* built[b]: buffer b has been constructed
    content,   \* content[b]: the bytes of buffer b (the bytearray itself)
    last,      \* last[b]: the last call made on buffer b (last[0]: on the class)
    trip,      \* the converter call under test: an encode, then a decode
    expect     \* expect[r]: what registry r is entitled to be (history variable)

vars == <<heap, defaults, built, content, last, trip, expect>>

-----------------------------------------------------------------------------
(* Bounds of the model *)
MaxInt == 260      \* integers converted: -MaxInt .. MaxInt
MaxStr == 2        \* longest text value
MaxTail == 2       \* most bytes following an encoded value
MaxLen == 3        \* longest buffer the operations may grow

(* Program constant: the default size of the bytes converter *)
BlockSize == 512

None == <<>>
Some(x) == <<x>>
Return(v) == [ok |-> TRUE, val |-> v]
Raise(e) == [ok |-> FALSE, err |-> e]

Min(a, b) == IF a < b THEN a ELSE b
Max(a, b) == IF a > b THEN a ELSE b

RECURSIVE Zeros(_)
Zeros(n) == IF n <= 0 THEN <<>> ELSE <<0>> \o Zeros(n - 1)

-----------------------------------------------------------------------------
(* Python built-ins the converters rest on *)

\* s[:n]
SliceTo(s, n) ==
    IF n >= 0 THEN SubSeq(s, 1, Min(n, Len(s)))
    ELSE SubSeq(s, 1, Max(Len(s) + n, 0))

\* s[n:]  (what `del s[:n]` leaves)
SliceFrom(s, n) ==
    IF n >= 0 THEN SubSeq(s, Min(n, Len(s)) + 1, Len(s))
    ELSE SubSeq(s, Max(Len(s) + n, 0) + 1, Len(s))

\* s[a:b] for a, b >= 0
Slice(s, a, b) == SubSeq(s, Min(a, Len(s)) + 1, Min(b, Len(s)))

\* int.bit_length()
RECURSIVE BitsOf(_)
BitsOf(n) == IF n = 0 THEN 0 ELSE 1 + BitsOf(n \div 2)
bit_length(value) == BitsOf(IF value < 0 THEN -value ELSE value)

\* the `size` low-order big-endian digits of n; \div and % round down, so a
\* negative n comes out in two's complement
RECURSIVE BigEndian(_, _)
BigEndian(n, size) ==
    IF size = 0 THEN <<>> ELSE BigEndian(n \div 256, size - 1) \o <<(n % 256)>>

\* int.to_bytes(size, 'big', signed=signed)
int_to_bytes(value, size, signed) ==
    IF size < 0 THEN Raise("ValueError")
    ELSE IF ~signed THEN
        IF value < 0 \/ bit_length(value) > 8 * size THEN Raise("OverflowError")
        ELSE Return(BigEndian(value, size))
    ELSE IF size = 0 THEN
        IF value \in {0, -1} THEN Return(<<>>) ELSE Raise("OverflowError")
    ELSE IF bit_length(IF value < 0 THEN -value - 1 ELSE value) > (8 * size) - 1
        THEN Raise("OverflowError")
    ELSE Return(BigEndian(value, size))

\* int.from_bytes(data, 'big', signed=signed)
RECURSIVE FromDigits(_, _)
FromDigits(acc, data) ==
    IF data = <<>> THEN acc ELSE FromDigits((256 * acc) + data[1], Tail(data))
int_from_bytes(data, signed) ==
    IF signed /\ data # <<>> /\ data[1] >= 128
    THEN FromDigits(data[1] - 256, Tail(data))
    ELSE FromDigits(0, data)

\* the UTF-8 encoding of one code point
Utf8Char(c) ==
    IF c < 128 THEN <<c>>
    ELSE IF c < 2048 THEN <<192 + (c \div 64), 128 + (c % 64)>>
    ELSE IF c < 65536
        THEN <<224 + (c \div 4096), 128 + ((c \div 64) % 64), 128 + (c % 64)>>
    ELSE <<240 + (c \div 262144), 128 + ((c \div 4096) % 64),
           128 + ((c \div 64) % 64), 128 + (c % 64)>>

IsCont(d, i) == i <= Len(d) /\ d[i] >= 128 /\ d[i] <= 191
InRange(d, i, lo, hi) == i <= Len(d) /\ d[i] >= lo /\ d[i] <= hi

\* str.encode(codec): codec is "utf-8" or "latin-1"
RECURSIVE StrEncode(_, _)
StrEncode(s, codec) ==
    IF s = <<>> THEN Return(<<>>)
    ELSE IF codec = "latin-1" /\ s[1] >= 256 THEN Raise("UnicodeEncodeError")
    ELSE LET rest == StrEncode(Tail(s), codec)
             head == IF codec = "latin-1" THEN <<s[1]>> ELSE Utf8Char(s[1])
         IN IF rest.ok THEN Return(head \o rest.val) ELSE rest

\* bytes.decode(codec), strict
RECURSIVE StrDecode(_, _)
StrDecode(d, codec) ==
    IF d = <<>> THEN Return(<<>>)
    ELSE LET b == d[1]
             n == IF codec = "latin-1" \/ b < 128 THEN 1
                  ELSE IF b >= 194 /\ b <= 223 /\ IsCont(d, 2) THEN 2
                  ELSE IF /\ b >= 224 /\ b <= 239
                          /\ InRange(d, 2, IF b = 224 THEN 160 ELSE 128,
                                           IF b = 237 THEN 159 ELSE 191)
                          /\ IsCont(d, 3) THEN 3
                  ELSE IF /\ b >= 240 /\ b <= 244
                          /\ InRange(d, 2, IF b = 240 THEN 144 ELSE 128,
                                           IF b = 244 THEN 143 ELSE 191)
                          /\ IsCont(d, 3) /\ IsCont(d, 4) THEN 4
                  ELSE 0
             c == IF n = 1 THEN b
                  ELSE IF n = 2 THEN ((b - 192) * 64) + (d[2] - 128)
                  ELSE IF n = 3
                      THEN ((b - 224) * 4096) + ((d[2] - 128) * 64) + (d[3] - 128)
                  ELSE ((b - 240) * 262144) + ((d[2] - 128) * 4096)
                       + ((d[3] - 128) * 64) + (d[4] - 128)
         IN IF n = 0 THEN Raise("UnicodeDecodeError")
            ELSE LET rest == StrDecode(SubSeq(d, n + 1, Len(d)), codec)
                 IN IF rest.ok THEN Return(<<c>> \o rest.val) ELSE rest

\* bytes.partition(sep): <<head, sep, tail>>, or <<data, b'', b''>> without sep
RECURSIVE FindAt(_, _, _)
FindAt(data, sep, i) ==
    IF i + Len(sep) - 1 > Len(data) THEN 0
    ELSE IF SubSeq(data, i, i + Len(sep) - 1) = sep THEN i
    ELSE FindAt(data, sep, i + 1)
\* (mutant) splits at the last occurrence of sep, as bytes.rpartition would
RECURSIVE FindLast(_, _, _)
FindLast(data, sep, i) ==
    IF i < 1 THEN 0
    ELSE IF SubSeq(data, i, i + Len(sep) - 1) = sep THEN i
    ELSE FindLast(data, sep, i - 1)
partition_last(data, sep) ==
    LET i == FindLast(data, sep, Len(data) - Len(sep) + 1)
    IN IF i = 0 THEN <<data, <<>>, <<>>>>
       ELSE <<SubSeq(data, 1, i - 1), sep, SubSeq(data, i + Len(sep), Len(data))>>

partition(data, sep) ==
    LET i == FindAt(data, sep, 1)
    IN IF i = 0 THEN <<data, <<>>, <<>>>>
       ELSE <<SubSeq(data, 1, i - 1), sep, SubSeq(data, i + Len(sep), Len(data))>>

-----------------------------------------------------------------------------
(* Converter functions *)

_encode(s, codec) == StrEncode(s, IF codec = None THEN "utf-8" ELSE codec[1])
_decode(d, codec) == StrDecode(d, IF codec = None THEN "utf-8" ELSE codec[1])

_block(data, size) ==
    LET size1 == IF size = None THEN Len(data) ELSE size[1]
    IN Return(<<SliceTo(data, size1), size1>>)

from_int(value, size, signed) ==
    LET size0 == IF size = None THEN 0 ELSE size[1]
        signed0 == IF signed = None THEN value < 0 ELSE signed[1]
    IN IF size0 < 0 THEN Raise("ValueError")
       ELSE LET bits == bit_length(value) + (IF signed0 THEN 1 ELSE 0)
                size1 == IF size0 = 0 THEN ((bits - 1) \div 8) + 1 ELSE size0
            IN int_to_bytes(value, size1, signed0)

\* (mutant) decodes every integer as unsigned
to_int_unsigned(data, size, signed) ==
    LET size0 == IF size = None THEN 1 ELSE size[1]
    IN Return(<<int_from_bytes(SliceTo(data, size0), FALSE), size0>>)

to_int(data, size, signed) ==
    LET size0 == IF size = None THEN 1 ELSE size[1]
        signed0 == IF signed = None THEN FALSE ELSE signed[1]
    IN Return(<<int_from_bytes(SliceTo(data, size0), signed0), size0>>)

\* (mutant) the length header counts characters, not encoded bytes
from_str_chars(value, size, encoding) ==
    LET bstr == _encode(value, encoding)
    IN IF ~bstr.ok THEN bstr
       ELSE IF size = None THEN bstr
       ELSE LET n == size[1]
            IN IF n < 0 THEN
                   LET hdr == from_int(Len(value), Some(-n), None)
                   IN IF hdr.ok THEN Return(hdr.val \o bstr.val) ELSE hdr
               ELSE IF n = 0 THEN
                   LET nul == _encode(<<0>>, encoding)
                   IN IF nul.ok THEN Return(bstr.val \o nul.val) ELSE nul
               ELSE IF n > Len(bstr.val) THEN Raise("UnboundLocalError")
               ELSE Return(SliceTo(bstr.val, n))

from_str(value, size, encoding) ==
    LET bstr == _encode(value, encoding)
    IN IF ~bstr.ok THEN bstr
       ELSE IF size = None THEN bstr
       ELSE LET length == Len(bstr.val)
                n == size[1]
            IN IF n < 0 THEN
                   LET hdr == from_int(length, Some(-n), None)
                   IN IF hdr.ok THEN Return(hdr.val \o bstr.val) ELSE hdr
               ELSE IF n = 0 THEN
                   LET nul == _encode(<<0>>, encoding)
                   IN IF nul.ok THEN Return(bstr.val \o nul.val) ELSE nul
               ELSE IF n > length THEN Raise("UnboundLocalError")
               ELSE Return(SliceTo(bstr.val, n))

to_str(data, size, encoding) ==
    IF size = None THEN
        LET value == _decode(data, encoding)
        IN IF value.ok THEN Return(<<value.val, Len(data)>>) ELSE value
    ELSE IF size[1] < 0 THEN
        LET hdr == to_int(data, Some(-size[1]), None)
            strsize == hdr.val[1]
            hsize == hdr.val[2]
            value == _decode(Slice(data, hsize, hsize + strsize), encoding)
        IN IF value.ok THEN Return(<<value.val, hsize + strsize>>) ELSE value
    ELSE IF size[1] = 0 THEN
        LET nul == _encode(<<0>>, encoding)
        IN IF ~nul.ok THEN nul
           ELSE LET parts == partition(data, nul.val)
                    value == _decode(parts[1], encoding)
                IN IF value.ok THEN Return(<<value.val, Len(parts[1]) + Len(parts[2])>>)
                   ELSE value
    ELSE
        LET value == _decode(SliceTo(data, size[1]), encoding)
        IN IF value.ok THEN Return(<<value.val, size[1]>>) ELSE value

from_bool(value, size) == int_to_bytes(IF value THEN 1 ELSE 0, size[1], FALSE)

to_bool(data, size) ==
    Return(<<int_from_bytes(SliceTo(data, size[1]), FALSE) # 0, size[1]>>)

-----------------------------------------------------------------------------
(* Function signatures and calls.  A signature is the parameter list of a    *)
(* function, in order: each parameter's name and its default, when it has    *)
(* one (inspect.Signature.empty otherwise).                                  *)

Req(n) == [name |-> n, has |-> FALSE, default |-> None]
Opt(n, d) == [name |-> n, has |-> TRUE, default |-> d]

\* the functions of the module, and the candidates a caller may register
Signature(f) ==
    CASE f = "_block" -> <<Req("data"), Opt("size", Some(BlockSize))>>
      [] f = "from_int" -> <<Req("value"), Opt("size", None), Opt("signed", None)>>
      [] f = "to_int" -> <<Req("data"), Opt("size", None), Opt("signed", None)>>
      [] f = "from_str" -> <<Req("value"), Opt("size", Some(0)), Opt("encoding", None)>>
      [] f = "to_str" -> <<Req("data"), Opt("size", Some(0)), Opt("encoding", None)>>
      [] f = "from_bool" -> <<Req("value"), Opt("size", Some(1))>>
      [] f = "to_bool" -> <<Req("data"), Opt("size", Some(1))>>
      \* a caller's converter pair for float, and ill-formed variants of it
      [] f = "from_float" -> <<Req("value"), Opt("size", Some(4))>>
      [] f = "to_float" -> <<Req("data"), Opt("size", Some(4))>>
      [] f = "to_float8" -> <<Req("data"), Opt("size", Some(8))>>
      [] f = "from_item" -> <<Req("item"), Opt("size", Some(4))>>
      [] f = "to_float_req" -> <<Req("data"), Req("size")>>
      [] f = "from_float_to" -> <<Req("value"), Opt("to", Some(4))>>

Names(sig) == {sig[i].name : i \in 1..Len(sig)}
ParamOf(sig, n) == sig[CHOOSE i \in 1..Len(sig) : sig[i].name = n]

\* _signature(func): the ordered mapping name -> default
_signature(func) == Signature(func)

\* Python's argument binding for func(first, *pos, **kw): the mapping from
\* parameter name to value, or TypeError.  `first` fills the first parameter
\* unless it is given by keyword (firstkw), as in func(**mapping).
Bind(func, first, pos, kw, firstkw) ==
    LET sig == Signature(func)
        npos == Len(pos) + (IF firstkw THEN 0 ELSE 1)
        bykw == DOMAIN kw \cup (IF firstkw THEN {sig[1].name} ELSE {})
        at(i) == IF firstkw THEN pos[i] ELSE IF i = 1 THEN first ELSE pos[i - 1]
    IN IF npos > Len(sig) THEN Raise("TypeError")
       ELSE IF ~(DOMAIN kw \subseteq Names(sig)) THEN Raise("TypeError")
       ELSE IF \E i \in 1..npos : sig[i].name \in bykw THEN Raise("TypeError")
       ELSE IF \E i \in (npos + 1)..Len(sig) : ~sig[i].has /\ sig[i].name \notin bykw
           THEN Raise("TypeError")
       ELSE Return([n \in Names(sig) |->
               LET i == CHOOSE j \in 1..Len(sig) : sig[j].name = n
               IN IF i <= npos THEN at(i)
                  ELSE IF n \in DOMAIN kw THEN kw[n]
                  ELSE IF firstkw /\ i = 1 THEN first
                  ELSE sig[i].default])

\* the call itself, once the arguments are bound
Apply(func, a) ==
    CASE func = "_block" -> _block(a.data, a.size)
      [] func = "from_int" -> from_int(a.value, a.size, a.signed)
      [] func = "to_int" -> to_int(a.data, a.size, a.signed)
      [] func = "from_str" -> from_str(a.value, a.size, a.encoding)
      [] func = "to_str" -> to_str(a.data, a.size, a.encoding)
      [] func = "from_bool" -> from_bool(a.value, a.size)
      [] func = "to_bool" -> to_bool(a.data, a.size)

Call(func, first, pos, kw, firstkw) ==
    LET a == Bind(func, first, pos, kw, firstkw)
    IN IF a.ok THEN Apply(func, a.val) ELSE a

NoKw == [n \in {} |-> None]

-----------------------------------------------------------------------------
(* The type registry: a `_defaults` dict maps a type to the dict of its      *)
(* converters ('to', 'from') and default arguments.                          *)

\* type objects, by name; "float" stands for any type registered by a caller
Types == {"bytes", "int", "str", "bool", "float"}

\* key.__name__, written as the str a caller passes in place of the type
NameOf(key) ==
    CASE key = "bytes" -> "'bytes'" [] key = "int" -> "'int'" [] key = "str" -> "'str'"
      [] key = "bool" -> "'bool'" [] key = "float" -> "'float'"
TypeNames == {NameOf(t) : t \in Types} \cup {"'foo'"}

\* the class attribute NetBuffer._defaults as the class statement leaves it
BytesOnly == [t \in {"bytes"} |-> [to |-> "_block", size |-> Some(BlockSize)]]

_dict_default(reg, type_, argname) ==
    LET found == {key \in DOMAIN reg : NameOf(key) = type_}
        type1 == IF type_ \in TypeNames /\ found # {} THEN CHOOSE key \in found : TRUE
                 ELSE type_
    IN IF type1 \notin DOMAIN reg THEN Raise("TypeError")
       ELSE IF argname \notin DOMAIN reg[type1] \/ argname \in {"to", "from"}
           THEN Raise("ValueError")
       ELSE Return(type1)

_get_default(reg, type_, argname) ==
    LET args == _dict_default(reg, type_, argname)
    IN IF args.ok THEN Return(reg[args.val][argname]) ELSE args

\* returns the registry as the assignment leaves it
_set_default(reg, type_, argname, value) ==
    LET args == _dict_default(reg, type_, argname)
    IN IF args.ok THEN Return([reg EXCEPT ![args.val][argname] = value]) ELSE args

Rest(sig) == SubSeq(sig, 2, Len(sig))

\* the three assertions register_class makes on one signature
SignatureOk(sig, first) ==
    /\ sig[1].name = first /\ ~sig[1].has
    /\ "to" \notin Names(Rest(sig)) /\ "from" \notin Names(Rest(sig))
    /\ \A i \in 2..Len(sig) : sig[i].has

\* (mutant) a registered type is registered again, replacing its entry
register_class_again(reg, type_, func_from, func_to) ==
    LET args_from == _signature(func_from)
        args_to == _signature(func_to)
        rest_from == Rest(args_from)
        rest_to == Rest(args_to)
        common_args == Names(rest_from) \cap Names(rest_to)
        defaults_ == [k \in {"to", "from"} \cup Names(rest_from) \cup Names(rest_to) |->
                        IF k = "to" THEN func_to
                        ELSE IF k = "from" THEN func_from
                        ELSE IF k \in Names(rest_to) THEN ParamOf(rest_to, k).default
                        ELSE ParamOf(rest_from, k).default]
    IN IF type_ \notin Types THEN Raise("TypeError")
       ELSE IF ~SignatureOk(args_from, "value") THEN Raise("TypeError")
       ELSE IF ~SignatureOk(args_to, "data") THEN Raise("TypeError")
       ELSE IF \E a \in common_args :
                   ParamOf(rest_to, a).default # ParamOf(rest_from, a).default
           THEN Raise("TypeError")
       ELSE Return([t \in DOMAIN reg \cup {type_} |->
                       IF t = type_ THEN defaults_ ELSE reg[t]])

\* returns the registry as the registration leaves it
register_class(reg, type_, func_from, func_to) ==
    LET args_from == _signature(func_from)
        args_to == _signature(func_to)
        rest_from == Rest(args_from)
        rest_to == Rest(args_to)
        common_args == Names(rest_from) \cap Names(rest_to)
        defaults_ == [k \in {"to", "from"} \cup Names(rest_from) \cup Names(rest_to) |->
                        IF k = "to" THEN func_to
                        ELSE IF k = "from" THEN func_from
                        ELSE IF k \in Names(rest_to) THEN ParamOf(rest_to, k).default
                        ELSE ParamOf(rest_from, k).default]
    IN IF type_ \notin Types THEN Raise("TypeError")
       ELSE IF type_ \in DOMAIN reg THEN Raise("ValueError")
       ELSE IF ~SignatureOk(args_from, "value") THEN Raise("TypeError")
       ELSE IF ~SignatureOk(args_to, "data") THEN Raise("TypeError")
       ELSE IF \E a \in common_args :
                   ParamOf(rest_to, a).default # ParamOf(rest_from, a).default
           THEN Raise("TypeError")
       ELSE Return([t \in DOMAIN reg \cup {type_} |->
                       IF t = type_ THEN defaults_ ELSE reg[t]])

\* returns the registry as the removal leaves it
drop_class(reg, type_) ==
    IF type_ \in DOMAIN reg
    THEN Return([t \in DOMAIN reg \ {type_} |-> reg[t]])
    ELSE Raise("TypeError")

\* NetBuffer._defaults once the module is imported (lines 248, 294, 306)
Imported ==
    LET r1 == register_class(BytesOnly, "int", "from_int", "to_int").val
        r2 == register_class(r1, "str", "from_str", "to_str").val
    IN register_class(r2, "bool", "from_bool", "to_bool").val

-----------------------------------------------------------------------------
(* The buffer: construction and attribute access *)

\* bytes.fromhex(text): the text is its sequence of characters, a hex digit
\* being its value 0..15 and any other character 16
RECURSIVE fromhex(_)
fromhex(h) ==
    IF h = <<>> THEN Return(<<>>)
    ELSE IF Len(h) = 1 \/ h[1] > 15 \/ h[2] > 15 THEN Raise("ValueError")
    ELSE LET rest == fromhex(SubSeq(h, 3, Len(h)))
         IN IF rest.ok THEN Return(<<(16 * h[1]) + h[2]>> \o rest.val) ELSE rest

\* name.partition('_'): <<typename, argname>>
partition_name(name) ==
    CASE name = "int_size" -> <<"'int'", "size">>
      [] name = "int_signed" -> <<"'int'", "signed">>
      [] name = "str_size" -> <<"'str'", "size">>
      [] name = "str_encoding" -> <<"'str'", "encoding">>
      [] name = "bytes_size" -> <<"'bytes'", "size">>
      [] name = "int_to" -> <<"'int'", "to">>
      [] name = "foo" -> <<"'foo'", "">>

\* the instance method objectmethod() installs: self.set_default(*args) is
\* _set_default(self, *args), which takes type_, argname and value
set_default(reg, args) ==
    IF Len(args) # 3 THEN Raise("TypeError")
    ELSE _set_default(reg, args[1], args[2], args[3])

\* self.get_default(*args)
get_default(reg, args) ==
    IF Len(args) # 2 THEN Raise("TypeError")
    ELSE _get_default(reg, args[1], args[2])

\* NetBuffer.__setattr__: returns the registry as the assignment leaves it
\* (line 143 calls set_default without the value)
__setattr__(reg, name, value) ==
    LET parts == partition_name(name)
        r == set_default(reg, <<parts[1], parts[2]>>)
    IN IF r.ok THEN r
       ELSE IF r.err \in {"TypeError", "ValueError"} THEN Raise("AttributeError")
       ELSE r

\* NetBuffer.__getattr__
__getattr__(reg, name) ==
    LET parts == partition_name(name)
        r == get_default(reg, <<parts[1], parts[2]>>)
    IN IF r.ok THEN r
       ELSE IF r.err \in {"TypeError", "ValueError"} THEN Raise("AttributeError")
       ELSE r

\* the loop of __init__ over kwargs, a sequence of <<name, value>>
RECURSIVE SetAll(_, _)
SetAll(reg, kwargs) ==
    IF kwargs = <<>> THEN Return(reg)
    ELSE LET r == __setattr__(reg, kwargs[1][1], kwargs[1][2])
         IN IF r.ok THEN SetAll(r.val, Tail(kwargs))
            ELSE IF r.err = "AttributeError" THEN Raise("TypeError")
            ELSE r

\* (mutant) the instance keeps a reference to the class dict
shared(ref, fresh) == ref

\* copy.deepcopy(self._defaults): a new dict, held at `fresh`, equal to heap[ref]
deepcopy(ref, fresh) == fresh

\* NetBuffer.__init__(data, **kwargs) on the copied registry `reg`: the bytes
\* and the registry of the new buffer
__init__(reg, data, kwargs) ==
    LET bytes_ == IF data.kind = "str" THEN fromhex(data.v) ELSE Return(data.v)
        set == SetAll(reg, kwargs)
    IN IF ~bytes_.ok THEN bytes_
       ELSE IF ~set.ok THEN set
       ELSE Return([content |-> bytes_.val, reg |-> set.val])

-----------------------------------------------------------------------------
(* The buffer: typed operations.  An item is [kind, v]: kind is the name of  *)
(* type(item) and v its value; a dict or list item keeps its entries.        *)

_to_bytes(reg, item) ==
    IF item.kind \in {"bytes", "bytearray", "memoryview"} THEN Return(item.v)
    ELSE IF item.kind \in DOMAIN reg
        THEN Call(reg[item.kind].from, item.v, <<>>, NoKw, FALSE)
    ELSE Raise("TypeError")

\* A descriptor is [form, tag, args, kw]: a type object (form "type"), a
\* tuple or list (tag, *args), or a dict {'type': tag, **kw}.
_from_bytes(reg, data, item) ==
    IF item.form \in {"list", "dict"} THEN Raise("TypeError")   \* unhashable
    ELSE LET item1 == IF item.form = "type" /\ item.tag \in DOMAIN reg
                      THEN [form |-> "dict", tag |-> item.tag, args |-> <<>>, kw |-> NoKw]
                      ELSE item
         IN IF item1.form = "type" THEN Raise("TypeError")  \* not subscriptable
            ELSE IF item1.tag \notin DOMAIN reg THEN Raise("TypeError")
            ELSE IF item1.form = "dict"
                THEN Call(reg[item1.tag].to, data, <<>>, item1.kw, TRUE)
            ELSE Call(reg[item1.tag].to, data, item1.args, NoKw, FALSE)

\* bytearray.insert(index, value)
ByteInsert(buf, index, value) ==
    LET i0 == IF index < 0 THEN index + Len(buf) ELSE index
        i == IF i0 < 0 THEN 0 ELSE IF i0 > Len(buf) THEN Len(buf) ELSE i0
    IN SubSeq(buf, 1, i) \o <<value>> \o SubSeq(buf, i + 1, Len(buf))

\* the loop of insert: for index, value in enumerate(item, index)
RECURSIVE InsertAll(_, _, _)
InsertAll(buf, index, bytes_) ==
    IF bytes_ = <<>> THEN buf
    ELSE InsertAll(ByteInsert(buf, index, bytes_[1]), index + 1, Tail(bytes_))

\* each returns <<what the call returns or raises, the bytes it leaves>>
append(reg, buf, item) ==
    LET r == _to_bytes(reg, item)
    IN IF r.ok THEN <<Return(None), buf \o r.val>> ELSE <<r, buf>>

\* (mutant) every byte is inserted at the given index, not at the next one
insert_same(reg, buf, index, item) ==
    LET RECURSIVE All(_, _)
        All(b, bytes_) ==
            IF bytes_ = <<>> THEN b
            ELSE All(ByteInsert(b, index, bytes_[1]), Tail(bytes_))
        r == _to_bytes(reg, item)
    IN IF r.ok THEN <<Return(None), All(buf, r.val)>> ELSE <<r, buf>>

insert(reg, buf, index, item) ==
    LET r == _to_bytes(reg, item)
    IN IF r.ok THEN <<Return(None), InsertAll(buf, index, r.val)>> ELSE <<r, buf>>

\* (mutant) removes the consumed bytes from the back of the buffer
pop_back(reg, buf, item) ==
    LET r == _from_bytes(reg, buf, item)
    IN IF r.ok THEN <<Return(r.val[1]), SliceTo(buf, Len(buf) - r.val[2])>>
       ELSE <<r, buf>>

pop(reg, buf, item) ==
    LET r == _from_bytes(reg, buf, item)
    IN IF r.ok THEN <<Return(r.val[1]), SliceFrom(buf, r.val[2])>> ELSE <<r, buf>>

-----------------------------------------------------------------------------
(* Inputs of the converter calls *)

SeqsUpTo(S, n) == UNION {[1..k -> S] : k \in 0..n}

IntValues == (0 - MaxInt)..MaxInt
\* code points: NUL, 'h', e-acute (two UTF-8 bytes), the euro sign (three
\* UTF-8 bytes, not in latin-1)
Chars == {0, 104, 233, 8364}
TextValues == SeqsUpTo(Chars, MaxStr)
Tails == SeqsUpTo({0, 104}, MaxTail)
\* explicit sizes; three bytes is the widest integer the checker's 32-bit
\* arithmetic decodes
IntSizes == {None} \cup {Some(n) : n \in -1..3}
StrSizes == {None} \cup {Some(n) : n \in -2..3}
BoolSizes == {Some(n) : n \in -1..3}
Flags == {None, Some(TRUE), Some(FALSE)}
Encodings == {None, Some("latin-1")}

-----------------------------------------------------------------------------
(* Converter calls: a value is encoded, then the encoded bytes, followed by  *)
(* `tail`, are decoded with the arguments of the encoding.  The functions    *)
(* are pure, so one encode and one decode from the initial state cover them. *)

Encoded(fn, value, size, arg, out) ==
    [fn |-> fn, stage |-> "encoded", value |-> value, size |-> size, arg |-> arg,
     enc |-> out, tail |-> <<>>, dec |-> out]

Decoded(tail, out) == [trip EXCEPT !.stage = "decoded", !.tail = tail, !.dec = out]

Rest_ == UNCHANGED <<heap, defaults, built, content, last, expect>>

FromInt(value, size, signed) ==
    /\ trip.stage = "none"
    /\ trip' = Encoded("int", value, size, signed, from_int(value, size, signed))
    /\ Rest_

ToInt(tail) ==
    /\ trip.fn = "int" /\ trip.stage = "encoded" /\ trip.enc.ok
    /\ trip' = Decoded(tail, to_int(trip.enc.val \o tail, trip.size, trip.arg))
    /\ Rest_

FromStr(value, size, encoding) ==
    /\ trip.stage = "none"
    /\ trip' = Encoded("str", value, size, encoding, from_str(value, size, encoding))
    /\ Rest_

ToStr(tail) ==
    /\ trip.fn = "str" /\ trip.stage = "encoded" /\ trip.enc.ok
    /\ trip' = Decoded(tail, to_str(trip.enc.val \o tail, trip.size, trip.arg))
    /\ Rest_

FromBool(value, size) ==
    /\ trip.stage = "none"
    /\ trip' = Encoded("bool", value, size, None, from_bool(value, size))
    /\ Rest_

ToBool(tail) ==
    /\ trip.fn = "bool" /\ trip.stage = "encoded" /\ trip.enc.ok
    /\ trip' = Decoded(tail, to_bool(trip.enc.val \o tail, trip.size))
    /\ Rest_

-----------------------------------------------------------------------------
(* Initial state: the module is imported, no buffer is built *)

Bufs == {1, 2}
Class == 0          \* heap[Class] is NetBuffer._defaults
NoDict == [t \in {} |-> None]
NoCall == [op |-> "none"]

Init ==
    /\ heap = [r \in {Class} \cup Bufs |-> IF r = Class THEN Imported ELSE NoDict]
    /\ defaults = [b \in Bufs |-> b]
    /\ built = [b \in Bufs |-> FALSE]
    /\ content = [b \in Bufs |-> <<>>]
    /\ last = [b \in {Class} \cup Bufs |-> NoCall]
    /\ trip = [fn |-> "none", stage |-> "none"]
    /\ expect = [r \in {Class} \cup Bufs |-> IF r = Class THEN Imported ELSE NoDict]

-----------------------------------------------------------------------------
(* Inputs of the buffer and registry operations *)

Bytes(v) == [kind |-> "bytes", v |-> v]
Item(kind, v) == [kind |-> kind, v |-> v]
Type(tag) == [form |-> "type", tag |-> tag, args |-> <<>>, kw |-> NoKw]
Tuple(tag, args) == [form |-> "tuple", tag |-> tag, args |-> args, kw |-> NoKw]
List(tag, args) == [form |-> "list", tag |-> tag, args |-> args, kw |-> NoKw]
Dict(tag, kw) == [form |-> "dict", tag |-> tag, args |-> <<>>, kw |-> kw]
SizeKw(n) == [k \in {"size"} |-> Some(n)]

\* NetBuffer(data): bytes, or a str of hex digits ('0102', '0', '0g')
InitData ==
    {Bytes(<<>>), Bytes(<<1, 2, 114>>), Bytes(<<2, 104, 0>>), Bytes(<<255, 1>>),
     Item("str", <<0, 1, 0, 2>>), Item("str", <<0>>), Item("str", <<0, 16>>)}

\* NetBuffer(data, **kwargs)
Options ==
    {<<>>, <<<<"int_size", Some(2)>>>>, <<<<"int_signed", Some(TRUE)>>>>,
     <<<<"str_size", Some(-1)>>>>, <<<<"str_encoding", Some("latin-1")>>>>,
     <<<<"bytes_size", Some(2)>>>>, <<<<"foo", Some(1)>>>>}
Recognized == {"int_size", "int_signed", "str_size", "str_encoding", "bytes_size"}

\* what append and insert are given: bytes, values of the registered types,
\* a value of an unregistered type (1.0), and values that carry their own
\* arguments: {'value': 1, 'size': 2} and [1, 2]
ByteItems == {Bytes(<<1, 2>>), Bytes(<<114>>)}
IntItems == {Item("int", v) : v \in {0, 1, 256}} \cup {Item("float", 1)}
TextItems == {Item("str", <<104>>)}
BoolItems == {Item("bool", TRUE)}
StructuredItems ==
    {[kind |-> "dict", v |-> 1, args |-> <<>>, kw |-> SizeKw(2)],
     [kind |-> "list", v |-> 1, args |-> <<Some(2)>>, kw |-> NoKw]}

\* what pop is given
Descriptors ==
    {Type(t) : t \in Types}
    \cup {Tuple("int", <<Some(n)>>) : n \in -1..3}
    \cup {Tuple("int", <<Some(2), Some(TRUE)>>), Tuple("int", <<>>),
          Tuple("int", <<Some(1), Some(FALSE), Some(1)>>),
          Tuple("str", <<Some(-1)>>), Tuple("str", <<Some(2)>>),
          Tuple("str", <<None>>), Tuple("str", <<Some(0), Some("latin-1")>>),
          Tuple("bool", <<Some(2)>>), Tuple("bytes", <<Some(2)>>),
          Tuple("bytes", <<None>>), Tuple("float", <<Some(1)>>),
          List("int", <<Some(1)>>), Dict("int", SizeKw(1)), Dict("str", SizeKw(-1))}

\* set_default(type_, argname, value)
DefaultEdits ==
    {<<"int", "size", Some(2)>>, <<"int", "to", Some(2)>>, <<"float", "size", Some(8)>>}

\* set_default calls of the registry specification
RegistryEdits ==
    {<<"str", "encoding", Some("latin-1")>>, <<"'str'", "encoding", None>>,
     <<"float", "size", Some(8)>>, <<"int", "to", Some(2)>>}

\* register_class(type_, func_from, func_to)
Registrations ==
    {<<"float", "from_float", "to_float">>, <<"float", "from_float", "to_float8">>,
     <<"bool", "from_bool", "to_bool">>, <<"int", "from_item", "to_float_req">>}

\* drop_class(type_)
Dropped == {"bool", "float"}

-----------------------------------------------------------------------------
(* Operations.  Obj is a buffer, or Class for a call on NetBuffer itself.    *)

Registry(obj) == IF obj = Class THEN Class ELSE defaults[obj]
Codec_ == UNCHANGED trip

\* b = NetBuffer(data, **kwargs)
Construct(b, data, kwargs) ==
    LET new == deepcopy(Class, b)
        copied == [heap EXCEPT ![b] = heap[Class]]
        r == __init__(copied[new], data, kwargs)
    IN /\ ~built[b]
       /\ last' = [last EXCEPT ![b] = [op |-> "init", data |-> data, kwargs |-> kwargs,
                                      out |-> IF r.ok THEN Return(None) ELSE r]]
       /\ IF r.ok
          THEN /\ heap' = [copied EXCEPT ![new] = r.val.reg]
               /\ defaults' = [defaults EXCEPT ![b] = new]
               /\ built' = [built EXCEPT ![b] = TRUE]
               /\ content' = [content EXCEPT ![b] = r.val.content]
               /\ expect' = [expect EXCEPT ![b] = heap[Class]]
          ELSE UNCHANGED <<heap, defaults, built, content, expect>>
       /\ Codec_

\* obj.set_default(type_, argname, value)
SetDefault(obj, type_, argname, value) ==
    LET r == set_default(heap[Registry(obj)], <<type_, argname, value>>)
        e == set_default(expect[obj], <<type_, argname, value>>)
    IN /\ obj \in Bufs => built[obj]
       /\ last' = [last EXCEPT ![obj] = [op |-> "set_default", type_ |-> type_,
                      argname |-> argname, value |-> value,
                      out |-> IF r.ok THEN Return(None) ELSE r]]
       /\ heap' = IF r.ok THEN [heap EXCEPT ![Registry(obj)] = r.val] ELSE heap
       /\ expect' = IF e.ok THEN [expect EXCEPT ![obj] = e.val] ELSE expect
       /\ UNCHANGED <<defaults, built, content>>
       /\ Codec_

\* NetBuffer.register_class(type_, func_from, func_to)
Register(type_, func_from, func_to) ==
    LET r == register_class(heap[Class], type_, func_from, func_to)
        e == register_class(expect[Class], type_, func_from, func_to)
    IN /\ last' = [last EXCEPT ![Class] = [op |-> "register_class", type_ |-> type_,
                      from |-> func_from, to |-> func_to,
                      out |-> IF r.ok THEN Return(None) ELSE r]]
       /\ heap' = IF r.ok THEN [heap EXCEPT ![Class] = r.val] ELSE heap
       /\ expect' = IF e.ok THEN [expect EXCEPT ![Class] = e.val] ELSE expect
       /\ UNCHANGED <<defaults, built, content>>
       /\ Codec_

\* NetBuffer.drop_class(type_)
Drop(type_) ==
    LET r == drop_class(heap[Class], type_)
        e == drop_class(expect[Class], type_)
    IN /\ last' = [last EXCEPT ![Class] = [op |-> "drop_class", type_ |-> type_,
                      out |-> IF r.ok THEN Return(None) ELSE r]]
       /\ heap' = IF r.ok THEN [heap EXCEPT ![Class] = r.val] ELSE heap
       /\ expect' = IF e.ok THEN [expect EXCEPT ![Class] = e.val] ELSE expect
       /\ UNCHANGED <<defaults, built, content>>
       /\ Codec_

Called(b, op, item, index, r) ==
    /\ Len(r[2]) <= MaxLen
    /\ last' = [last EXCEPT ![b] = [op |-> op, item |-> item, index |-> index,
                                   before |-> content[b], out |-> r[1]]]
    /\ content' = [content EXCEPT ![b] = r[2]]
    /\ UNCHANGED <<heap, defaults, built, expect>>
    /\ Codec_

\* b.append(item)
AppendItem(b, item) ==
    built[b] /\ Called(b, "append", item, 0, append(heap[defaults[b]], content[b], item))

\* b.insert(index, item)
InsertItem(b, index, item) ==
    built[b] /\ Called(b, "insert", item, index,
                       insert(heap[defaults[b]], content[b], index, item))

\* b.pop(item)
PopItem(b, item) ==
    built[b] /\ Called(b, "pop", item, 0, pop(heap[defaults[b]], content[b], item))

\* b.append(item) and b.insert(index, item) for each kind of item
AppendAny(b) ==
    \/ \E i \in ByteItems : AppendItem(b, i)
    \/ \E i \in IntItems : AppendItem(b, i)
    \/ \E i \in TextItems : AppendItem(b, i)
    \/ \E i \in BoolItems : AppendItem(b, i)
    \/ \E i \in StructuredItems : AppendItem(b, i)

InsertAny(b, n) ==
    \/ \E i \in ByteItems : InsertItem(b, n, i)
    \/ \E i \in IntItems : InsertItem(b, n, i)
    \/ \E i \in TextItems : InsertItem(b, n, i)
    \/ \E i \in BoolItems : InsertItem(b, n, i)
    \/ \E i \in StructuredItems : InsertItem(b, n, i)

\* one buffer and everything that can be done to it
Next ==
    \/ \E d \in InitData, kw \in Options : Construct(1, d, kw)
    \/ \E e \in DefaultEdits : SetDefault(1, e[1], e[2], e[3])
    \/ AppendAny(1)
    \/ \E n \in -1..(Len(content[1]) + 1) : InsertAny(1, n)
    \/ \E d \in Descriptors : PopItem(1, d)

Spec == Init /\ [][Next]_vars

\* the class registry and two buffers built from it
NextRegistry ==
    \/ \E b \in Bufs : Construct(b, Bytes(<<>>), <<>>)
    \/ \E o \in {Class} \cup Bufs, e \in RegistryEdits : SetDefault(o, e[1], e[2], e[3])
    \/ \E r \in Registrations : Register(r[1], r[2], r[3])
    \/ \E t \in Dropped : Drop(t)

SpecRegistry == Init /\ [][NextRegistry]_vars

\* two buffers, their own defaults, and the text appended to each
NextIsolation ==
    \/ \E b \in Bufs, kw \in {<<>>, <<<<"str_encoding", Some("latin-1")>>>>} :
            Construct(b, Bytes(<<>>), kw)
    \/ \E b \in Bufs, v \in {None, Some("latin-1")} :
            SetDefault(b, "str", "encoding", v)
    \/ \E b \in Bufs, v \in {<<104>>, <<233>>} : AppendItem(b, Item("str", v))

SpecIsolation == Init /\ [][NextIsolation]_vars

NextCodec ==
    \/ \E v \in IntValues, sz \in IntSizes, sg \in Flags : FromInt(v, sz, sg)
    \/ \E t \in Tails : ToInt(t)
    \/ \E v \in TextValues, sz \in StrSizes, e \in Encodings : FromStr(v, sz, e)
    \/ \E t \in Tails : ToStr(t)
    \/ \E v \in BOOLEAN, sz \in BoolSizes : FromBool(v, sz)
    \/ \E t \in Tails : ToBool(t)

SpecCodec == Init /\ [][NextCodec]_vars

-----------------------------------------------------------------------------
(* Properties of the converter functions, over SpecCodec *)

IsDecoded(fn) == trip.fn = fn /\ trip.stage = "decoded"
RoundTrips == trip.dec.ok /\ trip.dec.val = <<trip.value, Len(trip.enc.val)>>
EncodedText == _encode(trip.value, trip.arg)
Ceil8(n) == (n + 7) \div 8

\* C2 (as stated): for every built-in type and each of the three string
\* framings, decoding the bytes that encoding x produced, with the same
\* arguments, returns (x, number of encoded bytes).
C2_RoundTrip ==
    (/\ trip.stage = "decoded" /\ trip.tail = <<>>
     /\ trip.fn = "str" => trip.size # None)
    => RoundTrips

\* The cases in which the converters do round-trip
C2_Applies ==
    CASE trip.fn = "int" ->
            /\ trip.size # None /\ trip.size[1] >= 1
            /\ trip.arg # None \/ trip.value >= 0
      [] trip.fn = "bool" -> TRUE
      [] trip.fn = "str" ->
            /\ trip.size # None
            /\ trip.size[1] = 0 => \A i \in 1..Len(trip.value) : trip.value[i] # 0
            /\ trip.size[1] > 0 => trip.size[1] = Len(EncodedText.val)
      [] OTHER -> FALSE

\* C2 (amended): the round trip holds for booleans; for integers encoded
\* with an explicit width of at least one byte and an explicit signed flag
\* (or a non-negative value); for length-prefixed text; for NUL-terminated
\* text that holds no NUL character; and for fixed-width text whose encoding
\* is exactly `size` bytes long.
C2_RoundTripAmended ==
    (trip.stage = "decoded" /\ trip.tail = <<>> /\ C2_Applies) => RoundTrips

C2_Witness ==
    /\ IsDecoded("int") /\ trip.tail = <<>> /\ trip.value = -2
    /\ trip.size = Some(2) /\ trip.arg = Some(TRUE)
    /\ trip.enc.val = <<255, 254>> /\ trip.dec.val = <<-2, 2>>

\* C3: without an explicit width (size None or 0) from_int returns exactly
\* max(1, ceil((bit_length(value) + (1 if signed else 0)) / 8)) bytes, never
\* fewer than one: from_int(0) is the single byte 00.
C3_MinimalWidth ==
    (trip.fn = "int" /\ trip.size \in {None, Some(0)} /\ trip.enc.ok)
    => LET signed == IF trip.arg = None THEN trip.value < 0 ELSE trip.arg[1]
       IN /\ Len(trip.enc.val)
               = Max(1, Ceil8(bit_length(trip.value) + (IF signed THEN 1 ELSE 0)))
          /\ trip.value = 0 => trip.enc.val = <<0>>

\* C4: for a positive size X from_str returns exactly X bytes: the encoded
\* value padded with 00 bytes when it is shorter than X, its first X bytes
\* when it is longer.
C4_FixedWidth ==
    (/\ trip.fn = "str" /\ trip.size # None /\ trip.size[1] > 0
     /\ EncodedText.ok)
    => /\ trip.enc.ok
       /\ trip.enc.val =
            IF Len(EncodedText.val) < trip.size[1]
            THEN EncodedText.val \o Zeros(trip.size[1] - Len(EncodedText.val))
            ELSE SubSeq(EncodedText.val, 1, trip.size[1])

C5_Case ==
    /\ IsDecoded("str") /\ trip.size = Some(0)
    /\ \A i \in 1..Len(trip.value) : trip.value[i] # 0

\* C5: for a text v without NUL and any trailing bytes t (also t that starts
\* with NUL bytes) to_str(from_str(v, 0) + t, 0) returns (v, len(encoded v) + 1):
\* decoding stops at the first encoded NUL and consumes no byte of t.
C5_Terminator ==
    C5_Case => /\ trip.dec.ok
               /\ trip.dec.val = <<trip.value, Len(EncodedText.val) + 1>>

C5_Witness ==
    /\ C5_Case /\ trip.value = <<104, 233>> /\ trip.tail = <<0, 104>>
    /\ trip.dec.val = <<(<<104, 233>>), 4>>

C6_Case ==
    /\ trip.fn = "str" /\ trip.size # None /\ trip.size[1] < 0
    /\ EncodedText.ok
    /\ bit_length(Len(EncodedText.val)) <= 8 * (0 - trip.size[1])

\* C6: for a header width X >= 1 and a text whose encoded length fits in X
\* bytes, from_str(value, -X) is an X-byte unsigned big-endian header holding
\* the payload's byte length, followed by the payload, and to_str of those
\* bytes (whatever follows them) with size -X returns (value, X + payload length).
C6_LengthPrefixed ==
    C6_Case =>
        LET X == 0 - trip.size[1]
            b == EncodedText.val
        IN /\ trip.enc.ok
           /\ Len(trip.enc.val) = X + Len(b)
           /\ FromDigits(0, SubSeq(trip.enc.val, 1, X)) = Len(b)
           /\ SubSeq(trip.enc.val, X + 1, X + Len(b)) = b
           /\ trip.stage = "decoded"
                => trip.dec.ok /\ trip.dec.val = <<trip.value, X + Len(b)>>

C6_Witness ==
    /\ C6_Case /\ trip.stage = "decoded" /\ trip.tail = <<>>
    /\ trip.value = <<104, 233>> /\ trip.size = Some(-1)
    /\ trip.enc.val = <<3, 104, 195, 169>> /\ trip.dec.val = <<(<<104, 233>>), 4>>

-----------------------------------------------------------------------------
(* Properties of the buffer operations, over Spec *)

\* the argument a descriptor or item gives for the i-th optional parameter,
\* by position or by name, and `other` when it gives none
Given(item, i, name, other) ==
    IF i <= Len(item.args) THEN item.args[i]
    ELSE IF name \in DOMAIN item.kw THEN item.kw[name]
    ELSE other

\* the decode function of the descriptor's type on `data`, with the
\* descriptor's arguments
Decode(item, data) ==
    CASE item.tag = "int" ->
            to_int(data, Given(item, 1, "size", None), Given(item, 2, "signed", None))
      [] item.tag = "str" ->
            to_str(data, Given(item, 1, "size", Some(0)),
                         Given(item, 2, "encoding", None))
      [] item.tag = "bool" -> to_bool(data, Given(item, 1, "size", Some(1)))
      [] item.tag = "bytes" -> _block(data, Given(item, 1, "size", Some(BlockSize)))

Popped(b) == last[b].op = "pop" /\ last[b].out.ok

\* C1 (as stated): pop returns the value the type's decode function yields on
\* the buffer's full contents, and leaves the previous contents less exactly
\* the number of bytes the decode function reported as consumed, taken from
\* the front: the length drops by exactly that number.
C1_PopFront ==
    Popped(1) =>
        LET d == Decode(last[1].item, last[1].before).val
        IN /\ last[1].out.val = d[1]
           /\ Len(content[1]) = Len(last[1].before) - d[2]
           /\ content[1] = SubSeq(last[1].before, d[2] + 1, Len(last[1].before))

\* C1 (amended): pop returns the value the type's decode function yields on
\* the buffer's full contents, and leaves the previous contents less the
\* slice [:consumed] at the front: min(consumed, length) bytes for a
\* consumed count >= 0 (so the length drops by exactly that number only when
\* the buffer holds as many bytes), and all but the last -consumed bytes for
\* a negative one.
C1_PopFrontAmended ==
    Popped(1) =>
        LET d == Decode(last[1].item, last[1].before).val
            n == Len(last[1].before)
            k == IF d[2] >= 0 THEN Min(d[2], n) ELSE Max(n + d[2], 0)
        IN /\ last[1].out.val = d[1]
           /\ Len(content[1]) = n - k
           /\ content[1] = SubSeq(last[1].before, k + 1, n)

C1_Witness ==
    /\ Popped(1) /\ last[1].item = Tuple("int", <<Some(1)>>)
    /\ last[1].before = <<1, 2, 114>>
    /\ last[1].out.val = 1 /\ content[1] = <<2, 114>>

\* C9: constructing a buffer with one of the options int_size, int_signed,
\* str_size, str_encoding, bytes_size succeeds and the new buffer's default
\* for that type and argument is the given value; any other option name
\* fails with a configuration error.
C9_Options ==
    (/\ last[1].op = "init" /\ Len(last[1].kwargs) = 1
     /\ last[1].data.kind = "bytes")
    => LET name == last[1].kwargs[1][1]
           value == last[1].kwargs[1][2]
       IN IF name \in Recognized
          THEN /\ last[1].out.ok /\ built[1]
               /\ __getattr__(heap[defaults[1]], name) = Return(value)
          ELSE ~last[1].out.ok /\ ~built[1]

\* the bytes the converters return for a value that carries its arguments
EncodeItem(item) ==
    from_int(item.v, Given(item, 1, "size", None), Given(item, 2, "signed", None))

\* C10: append and pop accept per-call arguments by name and by position,
\* and these take precedence over the defaults: append of a structured item
\* adds the bytes the encode function returns for the value with those
\* arguments, and pop with a descriptor decodes with those arguments.
C10_Overrides ==
    /\ (last[1].op = "append" /\ last[1].item.kind \in {"dict", "list"})
       => /\ last[1].out.ok
          /\ content[1] = last[1].before \o EncodeItem(last[1].item).val
    /\ (/\ last[1].op = "pop" /\ last[1].item.form \in {"dict", "list", "tuple"}
        /\ last[1].item.tag \in {"int", "str", "bool", "bytes"}
        /\ Decode(last[1].item, last[1].before).ok
        /\ Len(last[1].item.args) <= 2)
       => /\ last[1].out.ok
          /\ last[1].out.val = Decode(last[1].item, last[1].before).val[1]

Inserted(b) == last[b].op = "insert" /\ last[b].out.ok

\* C12: for an index i with 0 <= i <= len(b) and an item append can encode,
\* insert(i, item) leaves b[0..i), then the bytes append would have added for
\* the item, in their order, then b[i..len(b)): no byte of b is lost,
\* duplicated or reordered.
C12_Splice ==
    (Inserted(1) /\ last[1].index \in 0..Len(last[1].before))
    => LET b == last[1].before
           i == last[1].index
           added == append(heap[defaults[1]], <<>>, last[1].item)[2]
       IN content[1] = SubSeq(b, 1, i) \o added \o SubSeq(b, i + 1, Len(b))

C12_Witness ==
    /\ Inserted(1) /\ last[1].index = 0
    /\ last[1].item.kind = "int" /\ last[1].item.v = 256
    /\ last[1].before = <<114>> /\ content[1] = <<1, 0, 114>>

-----------------------------------------------------------------------------
(* Properties of the registries *)

StrEncoding(b) == heap[defaults[b]]["str"].encoding
Added(b) == SubSeq(content[b], Len(last[b].before) + 1, Len(content[b]))

\* C7 (over SpecIsolation): two buffers with different str_encoding
\* overrides encode the same appended string each with its own encoding, so
\* for a string on which the encodings differ they hold different bytes.
C7_Isolation ==
    \A b1, b2 \in Bufs :
        (/\ built[b1] /\ built[b2]
         /\ last[b1].op = "append" /\ last[b2].op = "append"
         /\ last[b1].item = last[b2].item
         /\ StrEncoding(b1) # StrEncoding(b2)
         /\ _encode(last[b1].item.v, StrEncoding(b1))
                # _encode(last[b1].item.v, StrEncoding(b2)))
        => /\ Added(b1) # Added(b2)
           /\ Added(b1) = from_str(last[b1].item.v, Some(0), StrEncoding(b1)).val

Objects == {Class} \cup {b \in Bufs : built[b]}

\* C8 (over SpecRegistry): every buffer's registry is the class registry as
\* it was when the buffer was built, changed only by the set_default calls
\* made on that buffer; the class registry is changed only by register_class,
\* drop_class and set_default calls on the class.
C8_CloneIsolation == \A o \in Objects : heap[Registry(o)] = expect[o]

C8_Witness ==
    /\ built[1] /\ built[2]
    /\ "float" \in DOMAIN heap[Class] /\ "float" \notin DOMAIN heap[defaults[1]]
    /\ "bool" \notin DOMAIN heap[Class] /\ "bool" \in DOMAIN heap[defaults[2]]
    /\ StrEncoding(1) = Some("latin-1") /\ StrEncoding(2) = None
    /\ heap[Class]["str"].encoding = None
    /\ last[1].op = "set_default" /\ last[Class].op = "drop_class"

\* a step that is a call of register_class: it leaves its record in last[Class]
Registering ==
    /\ last'[Class].op = "register_class"
    /\ last[Class].op = "register_class" => last'[Class] # last[Class]

\* C11 (over SpecRegistry): register_class of a type that is already
\* registered fails (ValueError, before the signatures are looked at) and
\* leaves every registry as it was: the entry of the first registration, its
\* 'from' and 'to' functions and its defaults, is unchanged.
C11_Unique ==
    [][(Registering /\ last'[Class].type_ \in DOMAIN heap[Class])
       => /\ last'[Class].out = Raise("ValueError")
          /\ heap' = heap]_vars

C11_Witness ==
    /\ last[Class].op = "register_class" /\ last[Class].type_ = "float"
    /\ last[Class].to = "to_float8" /\ last[Class].out = Raise("ValueError")
    /\ "float" \in DOMAIN heap[Class]
    /\ heap[Class]["float"] =
           [to |-> "to_float", from |-> "from_float", size |-> Some(4)]

=============================================================================
